---- MODULE Spec2Model ----
(***************************************************************************)
(* Calima detection: the hour classifier, the repository (locations,       *)
(* hourly measurements, calima events) and CalimaDetector.detect_events.   *)
(*                                                                         *)
(* Units.  Timestamps are whole hours (0, 1, 2, ...).  pm10, pm25 and dust *)
(* are whole micrograms per cubic metre.  aod is counted in tenths, so the *)
(* source's threshold 0.5 is the number 5 here.  An absent value (Python   *)
(* None) is the number None, which is below every measured value.          *)
(***************************************************************************)
EXTENDS Integers, Sequences, FiniteSets, TLC

None == -1

\* Bounds of the model.
MaxHour == 5        \* the store holds readings at the hours 0..MaxHour
MaxScanHour == 7    \* hours 0..MaxScanHour of the series drawn for one scan
MaxAppendHour == 7  \* readings are appended at the hours 0..MaxAppendHour
MaxRepoEvents == 2  \* add_calima_event is called directly while fewer are stored
MaxQueryHour == 3   \* hours 0..MaxQueryHour of the readings a query runs over
MaxQueryEvents == 2 \* the most events a query runs over
DaysAround == 12    \* fetch_history_days is called with days within this of the limit
MaxBatch == 2       \* the longest list given to bulk_add_measurements

\* Thresholds of the hour classifier and the minimum run length.
DustMin == 150
Pm10AodMin == 50
AodMin == 5
Pm25Min == 35
Pm10StrongMin == 60
MinRunLen == 3

\* datetime.max, the detector's upper bound of a range query (the year 9999)
MaxPastDays == 90
datetime_max == 9999

VARIABLES
    locations,      \* names of the AirLocation documents
    measurements,   \* the AirMeasurement collection
    events,         \* the CalimaEvent collection, in insertion order
    lastCall,       \* the latest repository/detector call and what it returned
    point,          \* classifier input: the four optional values
    verdict,        \* classifier output: "none" before the call, then "True"/"False"
    running,        \* the detect_events invocations in progress, by caller
    serialized      \* whether the callers start detect_events only when none is in progress

vars == <<locations, measurements, events, lastCall, point, verdict, running, serialized>>

--------------------------------------------------------------------------
(* Hour classifier *)

\* Variant: the "is not None" tests of dust, aod and pm25 inverted.
is_calima_from_values_inverted_none(pm10, pm25, dust, aod) ==
    IF dust = None \/ dust > DustMin THEN TRUE
    ELSE IF (pm10 # None /\ pm10 > Pm10AodMin) /\ (aod = None \/ aod > AodMin) THEN TRUE
    ELSE IF (pm25 = None \/ pm25 > Pm25Min) /\ (pm10 # None /\ pm10 > Pm10StrongMin) THEN TRUE
    ELSE FALSE

\* Variant: every comparison >= instead of >.
is_calima_from_values_non_strict(pm10, pm25, dust, aod) ==
    IF dust # None /\ dust >= DustMin THEN TRUE
    ELSE IF (pm10 # None /\ pm10 >= Pm10AodMin) /\ (aod # None /\ aod >= AodMin) THEN TRUE
    ELSE IF (pm25 # None /\ pm25 >= Pm25Min) /\ (pm10 # None /\ pm10 >= Pm10StrongMin) THEN TRUE
    ELSE FALSE

is_calima_from_values(pm10, pm25, dust, aod) ==
    IF dust # None /\ dust > DustMin THEN TRUE
    ELSE IF (pm10 # None /\ pm10 > Pm10AodMin) /\ (aod # None /\ aod > AodMin) THEN TRUE
    ELSE IF (pm25 # None /\ pm25 > Pm25Min) /\ (pm10 # None /\ pm10 > Pm10StrongMin) THEN TRUE
    ELSE FALSE

\* Variant: the stored flag is trusted.
is_hour_calima_stored_flag(m) == m.is_calima

is_hour_calima(m) ==
    is_calima_from_values(m.pm10, m.pm25, m.dust, m.aod)

--------------------------------------------------------------------------
(* Inputs *)

LocNames == {"santa_cruz"}
Hours == 0 .. MaxHour

\* The values one hourly reading can carry (AirQualityData without its
\* timestamp): a clean hour, a dust-only hour (calima by rule 1, no pm10 and
\* no aod), and a haze hour (calima by rules 2 and 3, little dust, its stored
\* flag stale).
Clean == [pm10 |-> 10, pm25 |-> None, dust |-> 10, aod |-> 1, is_calima |-> FALSE]
DustOnly == [pm10 |-> None, pm25 |-> None, dust |-> 200, aod |-> None, is_calima |-> TRUE]
Haze == [pm10 |-> 70, pm25 |-> 40, dust |-> 20, aod |-> 8, is_calima |-> FALSE]
StoreKinds == {Clean, DustOnly}
ScanKinds == {Clean, DustOnly, Haze}

\* The values the classifier is applied to: absent, and values at and next
\* to each threshold.
Pm10Values == {None, 0, 50, 51, 60, 61}
Pm25Values == {None, 35, 36}
DustValues == {None, 150, 151}
AodValues == {None, 5, 6}

AirMeasurement(location, timestamp, d) ==
    [location |-> location, timestamp |-> timestamp,
     pm10 |-> d.pm10, pm25 |-> d.pm25, dust |-> d.dust, aod |-> d.aod,
     is_calima |-> d.is_calima]

CalimaEvent(location, start, end, peak_pm10, peak_dust, peak_aod) ==
    [location |-> location, start_time |-> start, end_time |-> end,
     peak_pm10 |-> peak_pm10, peak_dust |-> peak_dust, peak_aod |-> peak_aod]

--------------------------------------------------------------------------
(* Read repository *)

Range(s) == {s[i] : i \in DOMAIN s}

\* order_by("data.timestamp") over a set of documents
RECURSIVE OrderByTimestamp(_)
OrderByTimestamp(S) ==
    IF S = {} THEN <<>>
    ELSE LET first == CHOOSE m \in S : \A o \in S : m.timestamp <= o.timestamp
         IN  <<first>> \o OrderByTimestamp(S \ {first})

get_measurements(location_name) ==
    IF location_name \notin locations THEN <<>>
    ELSE OrderByTimestamp({m \in measurements : m.location = location_name})

\* Variant: the lower bound of the range is not applied.
get_range_from_beginning(location_name, start, end) ==
    IF location_name \notin locations THEN <<>>
    ELSE OrderByTimestamp({m \in measurements :
            /\ m.location = location_name
            /\ m.timestamp <= end})

\* Variant: the lower bound is exclusive (gt instead of gte).
get_range_exclusive_start(location_name, start, end) ==
    IF location_name \notin locations THEN <<>>
    ELSE OrderByTimestamp({m \in measurements :
            /\ m.location = location_name
            /\ m.timestamp > start
            /\ m.timestamp <= end})

\* Variant: the upper bound is exclusive (lt instead of lte).
get_range_exclusive_end(location_name, start, end) ==
    IF location_name \notin locations THEN <<>>
    ELSE OrderByTimestamp({m \in measurements :
            /\ m.location = location_name
            /\ m.timestamp >= start
            /\ m.timestamp < end})

get_range(location_name, start, end) ==
    IF location_name \notin locations THEN <<>>
    ELSE OrderByTimestamp({m \in measurements :
            /\ m.location = location_name
            /\ m.timestamp >= start
            /\ m.timestamp <= end})

\* The events of a location that order_by("-start_time") may put first:
\* those with the greatest start_time.
NewestEvents(location_name) ==
    IF location_name \notin locations THEN {}
    ELSE LET own == {e \in Range(events) : e.location = location_name}
         IN  {e \in own : \A o \in own : o.start_time <= e.start_time}

\* What old_events[0] can be: an event with the greatest start_time, or
\* NoEvent when get_calima_events returns the empty list.
NoEvent == CalimaEvent("", None, None, 0, 0, 0)

\* Variant: the events ordered by ascending start_time.
OldEventsFirst_oldest(location_name) ==
    IF NewestEvents(location_name) = {} THEN {NoEvent}
    ELSE LET own == {e \in Range(events) : e.location = location_name}
         IN  {e \in own : \A o \in own : e.start_time <= o.start_time}

OldEventsFirst(location_name) ==
    IF NewestEvents(location_name) = {} THEN {NoEvent}
    ELSE NewestEvents(location_name)

--------------------------------------------------------------------------
(* CalimaDetector.detect_events *)

Max(a, b) == IF a >= b THEN a ELSE b

\* Python's "value or 0": None and 0 both give 0
OrZero(v) == IF v = None \/ v = 0 THEN 0 ELSE v

\* The add_calima_event calls one scan can make, numbered in call order.
MaxCalls == (Max(Max(MaxHour, MaxScanHour), MaxAppendHour) + 1) \div (MinRunLen + 1)
CallNumbers == 1 .. MaxCalls

\* The loop variables before the first sample.
ScanStart ==
    [current_start |-> None, run_len |-> 0,
     peak_pm10 |-> 0, peak_dust |-> 0, peak_aod |-> 0,
     events |-> <<>>, calls |-> <<>>]

\* Variant: the episode ends one hour before the closing sample.
Persist_end_before_closing_hour(st, i, ms, location, rejected) ==
    LET event == CalimaEvent(location, st.current_start, ms[i].timestamp - 1,
                             st.peak_pm10, st.peak_dust, st.peak_aod)
        ok == (Len(st.calls) + 1) \notin rejected
    IN  [st EXCEPT !.calls = Append(@, [event |-> event, ok |-> ok, at |-> i]),
                   !.events = IF ok THEN Append(@, event) ELSE @]

\* The call add_calima_event(...) of the loop body for the run that sample i
\* closes: `rejected` holds the numbers of the calls that return None, `at`
\* keeps the index of the sample being processed when the call is made.
Persist(st, i, ms, location, rejected) ==
    LET event == CalimaEvent(location, st.current_start, ms[i - 1].timestamp,
                             st.peak_pm10, st.peak_dust, st.peak_aod)
        ok == (Len(st.calls) + 1) \notin rejected
    IN  [st EXCEPT !.calls = Append(@, [event |-> event, ok |-> ok, at |-> i]),
                   !.events = IF ok THEN Append(@, event) ELSE @]

\* Variant: a run of MinRunLen - 1 samples is persisted.
ScanStep_min_two(st, i, ms, location, rejected) ==
    IF is_hour_calima(ms[i])
    THEN LET opened == IF st.current_start = None
                       THEN [st EXCEPT !.current_start = ms[i].timestamp,
                                       !.run_len = 0]
                       ELSE st
         IN  [opened EXCEPT !.run_len = @ + 1,
                            !.peak_pm10 = Max(@, OrZero(ms[i].pm10)),
                            !.peak_dust = Max(@, OrZero(ms[i].dust)),
                            !.peak_aod = Max(@, OrZero(ms[i].aod))]
    ELSE LET closed == IF st.current_start # None /\ st.run_len >= MinRunLen - 1
                       THEN Persist(st, i, ms, location, rejected)
                       ELSE st
         IN  [closed EXCEPT !.current_start = None,
                            !.peak_pm10 = 0, !.peak_dust = 0, !.peak_aod = 0,
                            !.run_len = 0]

\* Variant: current_start is not reset when a run ends.
ScanStep_keep_start(st, i, ms, location, rejected) ==
    IF is_hour_calima(ms[i])
    THEN LET opened == IF st.current_start = None
                       THEN [st EXCEPT !.current_start = ms[i].timestamp,
                                       !.run_len = 0]
                       ELSE st
         IN  [opened EXCEPT !.run_len = @ + 1,
                            !.peak_pm10 = Max(@, OrZero(ms[i].pm10)),
                            !.peak_dust = Max(@, OrZero(ms[i].dust)),
                            !.peak_aod = Max(@, OrZero(ms[i].aod))]
    ELSE LET closed == IF st.current_start # None /\ st.run_len >= MinRunLen
                       THEN Persist(st, i, ms, location, rejected)
                       ELSE st
         IN  [closed EXCEPT !.peak_pm10 = 0, !.peak_dust = 0, !.peak_aod = 0,
                            !.run_len = 0]

\* Variant: the peaks are reset only after a persisted run.
ScanStep_peaks_kept(st, i, ms, location, rejected) ==
    IF is_hour_calima(ms[i])
    THEN LET opened == IF st.current_start = None
                       THEN [st EXCEPT !.current_start = ms[i].timestamp,
                                       !.run_len = 0]
                       ELSE st
         IN  [opened EXCEPT !.run_len = @ + 1,
                            !.peak_pm10 = Max(@, OrZero(ms[i].pm10)),
                            !.peak_dust = Max(@, OrZero(ms[i].dust)),
                            !.peak_aod = Max(@, OrZero(ms[i].aod))]
    ELSE IF st.current_start # None /\ st.run_len >= MinRunLen
         THEN [Persist(st, i, ms, location, rejected)
                  EXCEPT !.current_start = None,
                         !.peak_pm10 = 0, !.peak_dust = 0, !.peak_aod = 0,
                         !.run_len = 0]
         ELSE [st EXCEPT !.current_start = None, !.run_len = 0]

\* Variant: the scan stops at the first add_calima_event that returns None.
ScanStep_abort_after_failure(st, i, ms, location, rejected) ==
    IF \E k \in DOMAIN st.calls : ~st.calls[k].ok
    THEN st
    ELSE IF is_hour_calima(ms[i])
    THEN LET opened == IF st.current_start = None
                       THEN [st EXCEPT !.current_start = ms[i].timestamp,
                                       !.run_len = 0]
                       ELSE st
         IN  [opened EXCEPT !.run_len = @ + 1,
                            !.peak_pm10 = Max(@, OrZero(ms[i].pm10)),
                            !.peak_dust = Max(@, OrZero(ms[i].dust)),
                            !.peak_aod = Max(@, OrZero(ms[i].aod))]
    ELSE LET closed == IF st.current_start # None /\ st.run_len >= MinRunLen
                       THEN Persist(st, i, ms, location, rejected)
                       ELSE st
         IN  [closed EXCEPT !.current_start = None,
                            !.peak_pm10 = 0, !.peak_dust = 0, !.peak_aod = 0,
                            !.run_len = 0]

\* One iteration of the loop over zip(measurements, flags).
ScanStep(st, i, ms, location, rejected) ==
    IF is_hour_calima(ms[i])
    THEN LET opened == IF st.current_start = None
                       THEN [st EXCEPT !.current_start = ms[i].timestamp,
                                       !.run_len = 0]
                       ELSE st
         IN  [opened EXCEPT !.run_len = @ + 1,
                            !.peak_pm10 = Max(@, OrZero(ms[i].pm10)),
                            !.peak_dust = Max(@, OrZero(ms[i].dust)),
                            !.peak_aod = Max(@, OrZero(ms[i].aod))]
    ELSE LET closed == IF st.current_start # None /\ st.run_len >= MinRunLen
                       THEN Persist(st, i, ms, location, rejected)
                       ELSE st
         IN  [closed EXCEPT !.current_start = None,
                            !.peak_pm10 = 0, !.peak_dust = 0, !.peak_aod = 0,
                            !.run_len = 0]

\* The loop over the first n samples.
RECURSIVE ScanPrefix(_, _, _, _)
ScanPrefix(n, ms, location, rejected) ==
    IF n = 0 THEN ScanStart
    ELSE ScanStep(ScanPrefix(n - 1, ms, location, rejected), n, ms, location, rejected)

\* Variant: a run still open after the last sample is persisted too.
Scan_commit_open_run(ms, location, rejected) ==
    LET st == ScanPrefix(Len(ms), ms, location, rejected)
    IN  IF st.current_start # None /\ st.run_len >= MinRunLen
        THEN Persist(st, Len(ms) + 1, ms, location, rejected)
        ELSE st

\* The whole loop; an open run at the end is dropped.
Scan(ms, location, rejected) ==
    ScanPrefix(Len(ms), ms, location, rejected)

\* The read-repository call that loads the series: get_measurements on the
\* first run, get_range(last_end_ts, datetime.max) afterwards.
NoRead == [method |-> "none", start |-> None, end |-> None]

SeriesRead(last_end_ts) ==
    IF last_end_ts = None
    THEN [method |-> "get_measurements", start |-> None, end |-> None]
    ELSE [method |-> "get_range", start |-> last_end_ts, end |-> datetime_max]

\* Variant: the empty series raises (measurements[0] read before the test).
detect_events_index_first(location, rejected, old_first) ==
    LET last_end_ts == old_first.end_time
        ms == IF last_end_ts = None
              THEN get_measurements(location)
              ELSE get_range(location, last_end_ts, datetime_max)
    IN  IF ms = <<>>
        THEN [scanned |-> <<>>, calls |-> <<>>, events |-> <<>>, raised |-> TRUE,
              read |-> SeriesRead(last_end_ts)]
        ELSE LET st == Scan(ms, location, rejected)
             IN  [scanned |-> ms, calls |-> st.calls, events |-> st.events,
                  raised |-> FALSE, read |-> SeriesRead(last_end_ts)]

\* detect_events(location) when old_events[0] is old_first and the calls
\* numbered in `rejected` fail: the scanned series, the add_calima_event
\* calls, the returned list and whether an exception left the method.
detect_events(location, rejected, old_first) ==
    LET last_end_ts == old_first.end_time
        ms == IF last_end_ts = None
              THEN get_measurements(location)
              ELSE get_range(location, last_end_ts, datetime_max)
    IN  IF ms = <<>>
        THEN [scanned |-> <<>>, calls |-> <<>>, events |-> <<>>, raised |-> FALSE,
              read |-> SeriesRead(last_end_ts)]
        ELSE LET st == Scan(ms, location, rejected)
             IN  [scanned |-> ms, calls |-> st.calls, events |-> st.events,
                  raised |-> FALSE, read |-> SeriesRead(last_end_ts)]

\* The callers of detect_events and the local state of an invocation: where
\* it is (`pc`), the location, last_end_ts, the series it read, the index of
\* the next sample and the loop variables.
Callers == {"first", "second"}

Idle ==
    [pc |-> "idle", location |-> "", last_end_ts |-> None, ms |-> <<>>, i |-> 0,
     st |-> ScanStart]

NotRunning == [c \in Callers |-> Idle]

--------------------------------------------------------------------------
(* Operations *)

\* The record of a call: what was called, for which location, what it
\* returned and whether it raised.  For detect_events also the series it
\* scanned, its add_calima_event calls, the list it returned, and `repeat`:
\* the call before it was detect_events for the same location, every commit
\* of which was accepted, and `read`: how it loaded the series.  `args` holds
\* the further arguments of a query.
Call(op, location, returned, raised) ==
    [op |-> op, location |-> location, returned |-> returned, raised |-> raised,
     scanned |-> <<>>, calls |-> <<>>, result |-> <<>>, repeat |-> FALSE,
     read |-> NoRead, args |-> <<>>]

NoCall == Call("none", "", "none", FALSE)

AllAccepted(call) == \A k \in DOMAIN call.calls : call.calls[k].ok

\* ModifyAirRepository.add_location; the name is unique
AddLocation(name) ==
    /\ IF name \in locations
       THEN /\ UNCHANGED locations
            /\ lastCall' = Call("add_location", name, "none", TRUE)
       ELSE /\ locations' = locations \cup {name}
            /\ lastCall' = Call("add_location", name, "location", FALSE)
    /\ UNCHANGED <<measurements, events, point, verdict, running, serialized>>

\* Variant: no unique index on (location, timestamp).
AddMeasurement_no_unique_index(location_name, timestamp, d) ==
    /\ IF location_name \notin locations
       THEN /\ UNCHANGED measurements
            /\ lastCall' = Call("add_measurement", location_name, "None", FALSE)
       ELSE /\ measurements' = measurements \cup
                    {AirMeasurement(location_name, timestamp, d)}
            /\ lastCall' = Call("add_measurement", location_name, "measurement", FALSE)
    /\ UNCHANGED <<locations, events, point, verdict, running, serialized>>

\* ModifyAirRepository.add_measurement; (location, timestamp) is unique
AddMeasurement(location_name, timestamp, d) ==
    /\ IF location_name \notin locations
       THEN /\ UNCHANGED measurements
            /\ lastCall' = Call("add_measurement", location_name, "None", FALSE)
       ELSE IF \E m \in measurements :
                    m.location = location_name /\ m.timestamp = timestamp
       THEN /\ UNCHANGED measurements
            /\ lastCall' = Call("add_measurement", location_name, "none", TRUE)
       ELSE /\ measurements' = measurements \cup
                    {AirMeasurement(location_name, timestamp, d)}
            /\ lastCall' = Call("add_measurement", location_name, "measurement", FALSE)
    /\ UNCHANGED <<locations, events, point, verdict, running, serialized>>

\* ModifyAirRepository.delete_measurements_for_location
DeleteMeasurementsForLocation(location_name) ==
    /\ IF location_name \notin locations
       THEN /\ UNCHANGED measurements
            /\ lastCall' = Call("delete_measurements_for_location", location_name, 0, FALSE)
       ELSE LET own == {m \in measurements : m.location = location_name}
            IN  /\ measurements' = measurements \ own
                /\ lastCall' = Call("delete_measurements_for_location",
                                    location_name, Cardinality(own), FALSE)
    /\ UNCHANGED <<locations, events, point, verdict, running, serialized>>

\* Variant: the location's stored events are replaced by the new ones.
DetectEvents_replace(location, rejected) ==
    \E old_first \in OldEventsFirst(location) :
        LET out == detect_events(location, rejected, old_first)
        IN  /\ events' = IF out.events = <<>> THEN events ELSE out.events
            /\ lastCall' = [op |-> "detect_events", location |-> location,
                            returned |-> "list", raised |-> out.raised,
                            scanned |-> out.scanned, calls |-> out.calls,
                            result |-> out.events,
                            repeat |-> /\ lastCall.op = "detect_events"
                                       /\ lastCall.location = location
                                       /\ AllAccepted(lastCall),
                            read |-> out.read, args |-> <<>>]
            /\ UNCHANGED <<locations, measurements, point, verdict, running, serialized>>

\* CalimaDetector.detect_events, from its first read to its return
DetectEvents(location, rejected) ==
    \E old_first \in OldEventsFirst(location) :
        LET out == detect_events(location, rejected, old_first)
        IN  /\ events' = events \o out.events
            /\ lastCall' = [op |-> "detect_events", location |-> location,
                            returned |-> "list", raised |-> out.raised,
                            scanned |-> out.scanned, calls |-> out.calls,
                            result |-> out.events,
                            repeat |-> /\ lastCall.op = "detect_events"
                                       /\ lastCall.location = location
                                       /\ AllAccepted(lastCall),
                            read |-> out.read, args |-> <<>>]
            /\ UNCHANGED <<locations, measurements, point, verdict, running, serialized>>

--------------------------------------------------------------------------
(* CalimaDetector.detect_events, one collaborator call or loop iteration at
   a time *)

\* Step 1: get_calima_events and last_end_ts
Begin(c, location) ==
    /\ running[c].pc = "idle"
    /\ \E old_first \in OldEventsFirst(location) :
          running' = [running EXCEPT ![c] =
                         [Idle EXCEPT !.pc = "read_series",
                                      !.location = location,
                                      !.last_end_ts = old_first.end_time]]
    /\ UNCHANGED <<locations, measurements, events, lastCall, point, verdict, serialized>>

\* Step 2: get_measurements or get_range; the empty series returns []
ReadSeries(c) ==
    LET r == running[c]
        ms == IF r.last_end_ts = None
              THEN get_measurements(r.location)
              ELSE get_range(r.location, r.last_end_ts, datetime_max)
    IN  /\ r.pc = "read_series"
        /\ running' = [running EXCEPT ![c] =
                           IF ms = <<>>
                           THEN [r EXCEPT !.pc = "idle"]
                           ELSE [r EXCEPT !.pc = "scan", !.ms = ms, !.i = 1]]
        /\ UNCHANGED <<locations, measurements, events, lastCall, point, verdict, serialized>>

\* Step 4: one iteration of the loop, with its add_calima_event call when the
\* sample closes a run of at least 3; `ok` is whether that call is accepted.
\* After the last sample the invocation returns.
ScanSample(c, ok) ==
    LET r == running[c]
        st == ScanStep(r.st, r.i, r.ms, r.location,
                       IF ok THEN {} ELSE {Len(r.st.calls) + 1})
    IN  /\ r.pc = "scan"
        /\ events' = IF Len(st.events) > Len(r.st.events)
                     THEN Append(events, st.events[Len(st.events)])
                     ELSE events
        /\ running' = [running EXCEPT ![c] =
                           [r EXCEPT !.st = st, !.i = r.i + 1,
                                     !.pc = IF r.i = Len(r.ms) THEN "idle" ELSE "scan"]]
        /\ UNCHANGED <<locations, measurements, lastCall, point, verdict, serialized>>

--------------------------------------------------------------------------
(* Repository operations called directly *)

\* Variant: the event is saved without looking the location up.
AddCalimaEvent_no_lookup(location_name, start, end, peak_pm10, peak_dust, peak_aod) ==
    /\ Len(events) < MaxRepoEvents
    /\ events' = Append(events, CalimaEvent(location_name, start, end,
                                            peak_pm10, peak_dust, peak_aod))
    /\ lastCall' = Call("add_calima_event", location_name, "event", FALSE)
    /\ UNCHANGED <<locations, measurements, point, verdict, running, serialized>>

\* ModifyAirRepository.add_calima_event
AddCalimaEvent(location_name, start, end, peak_pm10, peak_dust, peak_aod) ==
    /\ Len(events) < MaxRepoEvents
    /\ IF location_name \notin locations
       THEN /\ UNCHANGED events
            /\ lastCall' = Call("add_calima_event", location_name, "None", FALSE)
       ELSE /\ events' = Append(events, CalimaEvent(location_name, start, end,
                                                    peak_pm10, peak_dust, peak_aod))
            /\ lastCall' = Call("add_calima_event", location_name, "event", FALSE)
    /\ UNCHANGED <<locations, measurements, point, verdict, running, serialized>>

\* AirMeasurement.objects.insert(docs): the documents are written in list
\* order up to the first one that breaks the unique (location, timestamp)
\* index, which raises.  The readings stored afterwards, and whether it raised.
RECURSIVE InsertMany(_, _, _)
InsertMany(stored, location_name, docs) ==
    IF docs = <<>> THEN [stored |-> stored, raised |-> FALSE]
    ELSE IF \E m \in stored : /\ m.location = location_name
                              /\ m.timestamp = Head(docs).timestamp
    THEN [stored |-> stored, raised |-> TRUE]
    ELSE InsertMany(stored \cup {AirMeasurement(location_name, Head(docs).timestamp,
                                                Head(docs))},
                    location_name, Tail(docs))

\* ModifyAirRepository.bulk_add_measurements; `batch` is a list of
\* AirQualityData
BulkAddMeasurements(location_name, batch) ==
    /\ IF location_name \notin locations
       THEN /\ UNCHANGED measurements
            /\ lastCall' = Call("bulk_add_measurements", location_name, 0, FALSE)
       ELSE IF batch = <<>>
       THEN /\ UNCHANGED measurements
            /\ lastCall' = Call("bulk_add_measurements", location_name, 0, FALSE)
       ELSE LET out == InsertMany(measurements, location_name, batch)
                inserted == IF out.raised THEN 0 ELSE Len(batch)
            IN  /\ measurements' = out.stored
                /\ lastCall' = [Call("bulk_add_measurements", location_name,
                                     inserted, FALSE)
                                    EXCEPT !.args = <<Len(batch)>>]
    /\ UNCHANGED <<locations, events, point, verdict, running, serialized>>

\* Variant: the readings and events of the location stay.
DeleteLocation_no_cascade(name) ==
    /\ name \in locations
    /\ locations' = locations \ {name}
    /\ lastCall' = [Call("delete_location", name, "None", FALSE)
                        EXCEPT !.args = <<Cardinality({m \in measurements : m.location = name}),
                                          Len(SelectSeq(events, LAMBDA e : e.location = name))>>]
    /\ UNCHANGED <<measurements, events, point, verdict, running, serialized>>

\* AirLocation.delete(): reverse_delete_rule=CASCADE removes the readings and
\* the events that reference the location.  `args` keeps how many of each
\* went with it.
DeleteLocation(name) ==
    /\ name \in locations
    /\ locations' = locations \ {name}
    /\ measurements' = {m \in measurements : m.location # name}
    /\ events' = SelectSeq(events, LAMBDA e : e.location # name)
    /\ lastCall' = [Call("delete_location", name, "None", FALSE)
                        EXCEPT !.args = <<Cardinality({m \in measurements : m.location = name}),
                                          Len(SelectSeq(events, LAMBDA e : e.location = name))>>]
    /\ UNCHANGED <<point, verdict, running, serialized>>

\* **kwargs of update_measurement: a record over KwargNames in which a key
\* that is not passed holds Missing; Python's False / True are 0 / 1.
Missing == -2
KwargNames == {"pm10", "pm25", "dust", "aod", "is_calima", "timestamp"}
valid_fields == {"pm10", "pm25", "dust", "aod", "is_calima"}

\* Variant: every valid field that is passed, None included.
update_dict_with_none(kwargs) ==
    {field \in valid_fields : kwargs[field] # Missing}

\* The keys of update_dict: field in kwargs and kwargs[field] is not None
update_dict(kwargs) ==
    {field \in valid_fields : kwargs[field] # Missing /\ kwargs[field] # None}

\* setattr(measurement.data, key, value) for every key of update_dict
SetAttrs(m, kwargs) ==
    LET keys == update_dict(kwargs)
        new(field) == IF field \in keys THEN kwargs[field] ELSE m[field]
    IN  [m EXCEPT !.pm10 = new("pm10"), !.pm25 = new("pm25"),
                  !.dust = new("dust"), !.aod = new("aod"),
                  !.is_calima = IF "is_calima" \in keys
                                THEN kwargs["is_calima"] = 1 ELSE m.is_calima]

\* ModifyAirRepository.update_measurement; a document is identified by its
\* location and timestamp, which no operation changes
UpdateMeasurement(location_name, timestamp, kwargs) ==
    LET found == {m \in measurements :
                    m.location = location_name /\ m.timestamp = timestamp}
        call(returned, raised) ==
            [Call("update_measurement", location_name, returned, raised)
                EXCEPT !.args = <<timestamp, kwargs>>]
    IN  /\ IF found = {} \/ update_dict(kwargs) = {}
           THEN /\ UNCHANGED measurements
                /\ lastCall' = call("ValueError", TRUE)
           ELSE /\ measurements' = {IF m \in found THEN SetAttrs(m, kwargs) ELSE m :
                                        m \in measurements}
                /\ lastCall' = call("measurement", FALSE)
        /\ UNCHANGED <<locations, events, point, verdict, running, serialized>>

\* A query: the store is read, the list returned is kept in `result`.
Query(op, location_name, args, returned, result) ==
    /\ lastCall' = [Call(op, location_name, returned, FALSE)
                        EXCEPT !.args = args, !.result = result]
    /\ UNCHANGED <<locations, measurements, events, point, verdict, running, serialized>>

\* ReadAirRepository.get_measurements
GetMeasurements(location_name) ==
    Query("get_measurements", location_name, <<>>, "list",
          get_measurements(location_name))

\* ReadAirRepository.get_range
GetRange(location_name, start, end) ==
    Query("get_range", location_name, <<start, end>>, "list",
          get_range(location_name, start, end))

\* ReadAirRepository.get_latest: order_by("-data.timestamp").first()
get_latest(location_name) ==
    LET all == get_measurements(location_name)
    IN  IF all = <<>> THEN <<>> ELSE <<all[Len(all)]>>

GetLatest(location_name) ==
    LET latest == get_latest(location_name)
    IN  Query("get_latest", location_name, <<>>,
              IF latest = <<>> THEN "None" ELSE "measurement", latest)

\* ReadAirRepository.find_calima_hours: the readings stored with is_calima=True
find_calima_hours(location_name) ==
    IF location_name \notin locations THEN <<>>
    ELSE OrderByTimestamp({m \in measurements :
            m.location = location_name /\ m.is_calima})

FindCalimaHours(location_name) ==
    Query("find_calima_hours", location_name, <<>>, "list",
          find_calima_hours(location_name))

\* The lists order_by("-start_time") can return for the events at the
\* positions `idx` of the collection: every arrangement with non-increasing
\* start_time (events with equal start_time come in either order).
NewestFirst(idx) ==
    LET n == Cardinality(idx)
        orders == {p \in [1 .. n -> idx] :
                      /\ \A i, j \in 1 .. n : i # j => p[i] # p[j]
                      /\ \A i \in 1 .. n - 1 :
                            events[p[i]].start_time >= events[p[i + 1]].start_time}
    IN  {[i \in 1 .. n |-> events[p[i]]] : p \in orders}

\* ReadAirRepository.get_calima_events
get_calima_events(location_name) ==
    IF location_name \notin locations THEN {<<>>}
    ELSE NewestFirst({k \in DOMAIN events : events[k].location = location_name})

GetCalimaEvents(location_name) ==
    \E list \in get_calima_events(location_name) :
        Query("get_calima_events", location_name, <<>>, "list", list)

\* ReadAirRepository.get_events_over_threshold: peak_pm10__gte=pm10_min
get_events_over_threshold(location_name, pm10_min) ==
    IF location_name \notin locations THEN {<<>>}
    ELSE NewestFirst({k \in DOMAIN events :
            /\ events[k].location = location_name
            /\ events[k].peak_pm10 # None
            /\ events[k].peak_pm10 >= pm10_min})

GetEventsOverThreshold(location_name, pm10_min) ==
    \E list \in get_events_over_threshold(location_name, pm10_min) :
        Query("get_events_over_threshold", location_name, <<pm10_min>>, "list", list)

--------------------------------------------------------------------------
(* Open-Meteo client *)

\* The keys of LOCATIONS
LOCATIONS == {"santa_cruz", "puerto_de_la_cruz", "adeje"}

\* One requests.get(FORECAST_URL, params=params, timeout=15)
Request(location, days, ok) ==
    [url |-> "FORECAST_URL", location |-> location, past_days |-> days, ok |-> ok]

Fetched(location, days, returned, raised, requests) ==
    /\ lastCall' = [Call("fetch_history_days", location, returned, raised)
                        EXCEPT !.args = <<days>>, !.calls = requests]
    /\ UNCHANGED <<locations, measurements, events, point, verdict, running, serialized>>

\* Variant: the days check comes before the location check.
FetchHistoryDays_days_first(location, days, ok) ==
    IF days > MaxPastDays
    THEN Fetched(location, days, "ValueError: past_days", TRUE, <<>>)
    ELSE IF location \notin LOCATIONS
    THEN Fetched(location, days, "ValueError: Unknown location", TRUE, <<>>)
    ELSE IF ~ok
    THEN Fetched(location, days, "HTTPError", TRUE, <<Request(location, days, ok)>>)
    ELSE Fetched(location, days, "AirQualityData", FALSE, <<Request(location, days, ok)>>)

\* fetch_history_days; `ok` is whether the API answers without an HTTP error
\* (raise_for_status)
FetchHistoryDays(location, days, ok) ==
    IF location \notin LOCATIONS
    THEN Fetched(location, days, "ValueError: Unknown location", TRUE, <<>>)
    ELSE IF days > MaxPastDays
    THEN Fetched(location, days, "ValueError: past_days", TRUE, <<>>)
    ELSE IF ~ok
    THEN Fetched(location, days, "HTTPError", TRUE, <<Request(location, days, ok)>>)
    ELSE Fetched(location, days, "AirQualityData", FALSE, <<Request(location, days, ok)>>)

\* The is_calima expression of get_current_point
current_is_calima(pm10, pm25, dust, aod) ==
    \/ (dust # None /\ dust > DustMin)
    \/ (pm10 # None /\ pm10 > Pm10AodMin /\ aod # None /\ aod > AodMin)

CurrentPoint(location, pm10, pm25, dust, aod, is_calima) ==
    [location |-> location, pm10 |-> pm10, pm25 |-> pm25, dust |-> dust,
     aod |-> aod, is_calima |-> is_calima]

\* get_current_point: fetch_update (location check, one request), then the
\* datapoint nearest to now, whose four values are `point`
GetCurrentPoint(location, ok) ==
    /\ lastCall' =
          IF location \notin LOCATIONS
          THEN Call("get_current_point", location, "ValueError: Unknown location", TRUE)
          ELSE IF ~ok
          THEN [Call("get_current_point", location, "HTTPError", TRUE)
                   EXCEPT !.calls = <<Request(location, 2, ok)>>]
          ELSE [Call("get_current_point", location, "CurrentPoint", FALSE)
                   EXCEPT !.calls = <<Request(location, 2, ok)>>,
                          !.result = <<CurrentPoint(location, point[1], point[2],
                                           point[3], point[4],
                                           current_is_calima(point[1], point[2],
                                                             point[3], point[4]))>>]
    /\ UNCHANGED <<locations, measurements, events, point, verdict, running, serialized>>

\* CalimaDetector.is_calima_from_values applied to the drawn values
Verdict(b) == IF b THEN "True" ELSE "False"

Classify ==
    /\ verdict = "none"
    /\ running = NotRunning
    /\ serialized = TRUE
    /\ verdict' = Verdict(is_calima_from_values(point[1], point[2], point[3], point[4]))
    /\ UNCHANGED <<locations, measurements, events, lastCall, point, running, serialized>>

--------------------------------------------------------------------------
(* Specifications *)

\* The store from its creation, under any sequence of calls.
Init ==
    /\ locations = {}
    /\ measurements = {}
    /\ events = <<>>
    /\ lastCall = NoCall
    /\ point = <<None, None, None, None>>
    /\ verdict = "none"
    /\ running = NotRunning
    /\ serialized = TRUE

Next ==
    \/ \E name \in LocNames : AddLocation(name)
    \/ \E l \in LocNames, t \in Hours, d \in StoreKinds : AddMeasurement(l, t, d)
    \/ \E l \in LocNames : DeleteMeasurementsForLocation(l)
    \/ \E l \in LocNames, rejected \in SUBSET CallNumbers : DetectEvents(l, rejected)

Spec == Init /\ [][Next]_vars

\* One stored series of any length up to MaxScanHour + 1, hourly from hour 0,
\* and no event yet; then detect_events, any number of times.
ScanInit ==
    /\ locations = LocNames
    /\ \E l \in LocNames, n \in 0 .. MaxScanHour + 1 :
         \E d \in [0 .. n - 1 -> ScanKinds] :
            measurements = {AirMeasurement(l, h, d[h]) : h \in 0 .. n - 1}
    /\ events = <<>>
    /\ lastCall = NoCall
    /\ point = <<None, None, None, None>>
    /\ verdict = "none"
    /\ running = NotRunning
    /\ serialized = TRUE

ScanNext ==
    \E l \in LocNames, rejected \in SUBSET CallNumbers : DetectEvents(l, rejected)

SpecScan == ScanInit /\ [][ScanNext]_vars

\* The classifier applied to one drawn four-tuple of optional values.
ClassifierInit ==
    /\ locations = {}
    /\ measurements = {}
    /\ events = <<>>
    /\ lastCall = NoCall
    /\ point \in Pm10Values \X Pm25Values \X DustValues \X AodValues
    /\ verdict = "none"
    /\ running = NotRunning
    /\ serialized = TRUE

ClassifierNext == Classify

SpecClassifier == ClassifierInit /\ [][ClassifierNext]_vars

\* Append-only growth: a reading is added only after every stored reading of
\* its location, at most MaxGap hours after the latest one, and readings are
\* never deleted or updated; detect_events runs at any time, from its first
\* read to its return.
AppendHours == 0 .. MaxAppendHour
MaxGap == 2

LatestHour(location) ==
    LET own == {m.timestamp : m \in {o \in measurements : o.location = location}}
    IN  IF own = {} THEN None
        ELSE CHOOSE t \in own : \A o \in own : o <= t

AppendMeasurement(location_name, timestamp, d) ==
    /\ LatestHour(location_name) < timestamp
    /\ timestamp <= LatestHour(location_name) + MaxGap
    /\ AddMeasurement(location_name, timestamp, d)

AppendInit ==
    /\ locations = LocNames
    /\ measurements = {}
    /\ events = <<>>
    /\ lastCall = NoCall
    /\ point = <<None, None, None, None>>
    /\ verdict = "none"
    /\ running = NotRunning
    /\ serialized = TRUE

AppendNext ==
    \/ \E l \in LocNames, t \in AppendHours, d \in StoreKinds : AppendMeasurement(l, t, d)
    \/ \E l \in LocNames, rejected \in SUBSET CallNumbers : DetectEvents(l, rejected)

SpecAppend == AppendInit /\ [][AppendNext]_vars

\* Two callers of detect_events for the same location over a growing series:
\* they either start an invocation only when none is in progress
\* (serialized) or at any time.
MaxOverlapHour == 4
OverlapHours == 0 .. MaxOverlapHour

OverlapInit ==
    /\ locations = LocNames
    /\ measurements = {}
    /\ events = <<>>
    /\ lastCall = NoCall
    /\ point = <<None, None, None, None>>
    /\ verdict = "none"
    /\ running = NotRunning
    /\ serialized \in BOOLEAN

OverlapNext ==
    \/ \E l \in LocNames, t \in OverlapHours, d \in StoreKinds : AppendMeasurement(l, t, d)
    \/ \E c \in Callers, l \in LocNames :
          /\ serialized => \A o \in Callers : running[o].pc = "idle"
          /\ Begin(c, l)
    \/ \E c \in Callers : ReadSeries(c)
    \/ \E c \in Callers, ok \in BOOLEAN : ScanSample(c, ok)

SpecOverlap == OverlapInit /\ [][OverlapNext]_vars

\* One caller invokes detect_events again and again over a growing series,
\* each invocation after the previous one returned, and every
\* add_calima_event call is accepted.  The caller's next step (starting an
\* invocation included) is eventually taken.
MaxLiveHour == 4
LiveHours == 0 .. MaxLiveHour

LiveDetect ==
    \/ \E l \in LocNames : Begin("first", l)
    \/ ReadSeries("first")
    \/ ScanSample("first", TRUE)

LiveNext ==
    \/ \E l \in LocNames, t \in LiveHours, d \in StoreKinds : AppendMeasurement(l, t, d)
    \/ LiveDetect

SpecLive == AppendInit /\ [][LiveNext]_vars /\ WF_vars(LiveDetect)

\* The repository with two location names: every operation, called for known
\* and unknown locations, and the removal of a location.
RepoLocNames == {"santa_cruz", "adeje"}
RepoHours == {0, 1}

\* The lists given to bulk_add_measurements: AirQualityData with timestamps.
Data(timestamp, d) ==
    [timestamp |-> timestamp, pm10 |-> d.pm10, pm25 |-> d.pm25, dust |-> d.dust,
     aod |-> d.aod, is_calima |-> d.is_calima]

RepoData == {Data(t, d) : t \in RepoHours, d \in StoreKinds}
RepoBatches == UNION {[1 .. n -> RepoData] : n \in 0 .. MaxBatch}

RepoNext ==
    \/ \E name \in RepoLocNames : AddLocation(name)
    \/ \E name \in RepoLocNames : DeleteLocation(name)
    \/ \E l \in RepoLocNames, t \in RepoHours, d \in StoreKinds : AddMeasurement(l, t, d)
    \/ \E l \in RepoLocNames, batch \in RepoBatches : BulkAddMeasurements(l, batch)
    \/ \E l \in RepoLocNames : DeleteMeasurementsForLocation(l)
    \/ \E l \in RepoLocNames : AddCalimaEvent(l, 0, 2, 70, 200, 8)
    \/ \E l \in RepoLocNames : GetMeasurements(l)
    \/ \E l \in RepoLocNames : GetLatest(l)
    \/ \E l \in RepoLocNames, start \in RepoHours, end \in RepoHours : GetRange(l, start, end)
    \/ \E l \in RepoLocNames : FindCalimaHours(l)
    \/ \E l \in RepoLocNames : GetCalimaEvents(l)
    \/ \E l \in RepoLocNames : GetEventsOverThreshold(l, 50)

SpecRepo == Init /\ [][RepoNext]_vars

\* The readings of one location under every operation that writes readings.
UpdateHours == {0, 1}
UpdateData == {Data(t, d) : t \in UpdateHours, d \in StoreKinds}
UpdateBatches == UNION {[1 .. n -> UpdateData] : n \in 0 .. MaxBatch}

Kwargs(pm10, pm25, dust, aod, is_calima, timestamp) ==
    [pm10 |-> pm10, pm25 |-> pm25, dust |-> dust, aod |-> aod,
     is_calima |-> is_calima, timestamp |-> timestamp]

UpdateKwargs ==
    {Kwargs(pm10, Missing, dust, Missing, is_calima, timestamp) :
        pm10 \in {Missing, None, 70}, dust \in {Missing, None},
        is_calima \in {Missing, 1}, timestamp \in {Missing, 2}}
    \cup {Kwargs(70, 40, 200, 6, 1, Missing)}

UpdateNext ==
    \/ \E name \in LocNames : AddLocation(name)
    \/ \E l \in LocNames, t \in UpdateHours, d \in StoreKinds : AddMeasurement(l, t, d)
    \/ \E l \in LocNames, batch \in UpdateBatches : BulkAddMeasurements(l, batch)
    \/ \E l \in LocNames, t \in UpdateHours, kwargs \in UpdateKwargs :
            UpdateMeasurement(l, t, kwargs)
    \/ \E l \in LocNames : DeleteMeasurementsForLocation(l)

SpecUpdate == Init /\ [][UpdateNext]_vars

\* The read side over a store of one location that holds readings or events.
QueryHours == 0 .. MaxQueryHour
QueryEvents ==
    {CalimaEvent(l, start, start + 2, peak_pm10, 200, 8) :
        l \in LocNames, start \in {0, 4}, peak_pm10 \in {None, 50, 100, 150}}
QueryThresholds == {100}

QueryInit ==
    /\ locations = LocNames
    /\ \/ /\ \E l \in LocNames, present \in SUBSET QueryHours :
                \E kind \in [present -> StoreKinds] :
                    measurements = {AirMeasurement(l, t, kind[t]) : t \in present}
          /\ events = <<>>
       \/ /\ measurements = {}
          /\ \E n \in 0 .. MaxQueryEvents : events \in [1 .. n -> QueryEvents]
    /\ lastCall = NoCall
    /\ point = <<None, None, None, None>>
    /\ verdict = "none"
    /\ running = NotRunning
    /\ serialized = TRUE

QueryNext ==
    \/ \E l \in LocNames : GetMeasurements(l)
    \/ \E l \in LocNames, start \in QueryHours, end \in QueryHours : GetRange(l, start, end)
    \/ \E l \in LocNames : GetLatest(l)
    \/ \E l \in LocNames : FindCalimaHours(l)
    \/ \E l \in LocNames : GetCalimaEvents(l)
    \/ \E l \in LocNames, pm10_min \in QueryThresholds : GetEventsOverThreshold(l, pm10_min)

SpecQuery == QueryInit /\ [][QueryNext]_vars

\* The Open-Meteo client called with known and unknown location keys and
\* with days on both sides of the limit.
FetchLocations == LOCATIONS \cup {"la_laguna", ""}
FetchDays == (MaxPastDays - DaysAround) .. (MaxPastDays + DaysAround)

FetchNext ==
    \E location \in FetchLocations, days \in FetchDays, ok \in BOOLEAN :
        FetchHistoryDays(location, days, ok)

SpecFetch == Init /\ [][FetchNext]_vars

\* get_current_point over one drawn datapoint.
CurrentPointNext ==
    \E location \in FetchLocations, ok \in BOOLEAN : GetCurrentPoint(location, ok)

SpecCurrentPoint == ClassifierInit /\ [][CurrentPointNext]_vars

--------------------------------------------------------------------------
(* Properties *)

Detected == lastCall.op = "detect_events"

\* The classification of the scanned series, and its runs by index.
Flag(ms, i) == is_hour_calima(ms[i])

\* a..b is a closed run of ms: a maximal block of calima samples followed
\* by a non-calima sample.
IsClosedRun(ms, a, b) ==
    /\ 1 <= a /\ a <= b /\ b < Len(ms)
    /\ \A k \in a .. b : Flag(ms, k)
    /\ (a = 1 \/ ~Flag(ms, a - 1))
    /\ ~Flag(ms, b + 1)

ClosedRuns(ms) ==
    {r \in (1 .. Len(ms)) \X (1 .. Len(ms)) : IsClosedRun(ms, r[1], r[2])}

RunLength(r) == r[2] - r[1] + 1

\* The calls of the latest detect_events that submit the run r of ms.
CallsFor(ms, r) ==
    {k \in DOMAIN lastCall.calls :
        /\ lastCall.calls[k].event.start_time = ms[r[1]].timestamp
        /\ lastCall.calls[k].event.end_time = ms[r[2]].timestamp}

\* C1: idempotence.  A detect_events call that follows a detect_events call
\* for the same location, with every commit of the earlier call accepted and
\* no other call in between, makes no add_calima_event call and returns the
\* empty list.
C1_Idempotent ==
    (Detected /\ lastCall.repeat) =>
        (lastCall.calls = <<>> /\ lastCall.result = <<>>)

\* Reached: a repeated call that re-examined the end hour of a stored
\* episode and at least one later sample.
C1_Witness ==
    /\ Detected /\ lastCall.repeat
    /\ Len(lastCall.scanned) >= 2
    /\ \E e \in Range(events) :
          /\ e.location = lastCall.location
          /\ e.end_time = lastCall.scanned[1].timestamp
          /\ Flag(lastCall.scanned, 1)

\* C2: minimum duration.  Every closed run of the scanned series is
\* submitted to add_calima_event exactly when it has at least 3 samples, and
\* a submitted run whose write succeeded is stored and returned.
C2_MinimumDuration ==
    Detected =>
        \A r \in ClosedRuns(lastCall.scanned) :
            /\ (CallsFor(lastCall.scanned, r) # {}) <=> (RunLength(r) >= 3)
            /\ \A k \in CallsFor(lastCall.scanned, r) :
                  lastCall.calls[k].ok =>
                      /\ lastCall.calls[k].event \in Range(events)
                      /\ lastCall.calls[k].event \in Range(lastCall.result)

\* Reached: one scan with a closed run of 2 samples and a closed run of 3.
C2_Witness ==
    /\ Detected
    /\ \E r \in ClosedRuns(lastCall.scanned) : RunLength(r) = 2
    /\ \E r \in ClosedRuns(lastCall.scanned) :
          RunLength(r) = 3 /\ CallsFor(lastCall.scanned, r) # {}

\* The first index of the run that is open at the end of ms (ms ends on a
\* calima sample).
OpenRunStart(ms) ==
    CHOOSE a \in 1 .. Len(ms) :
        /\ \A k \in a .. Len(ms) : Flag(ms, k)
        /\ (a = 1 \/ ~Flag(ms, a - 1))

\* C3: open-run exclusion.  When the scanned series ends on a calima
\* sample, every submitted and every returned episode ends before the
\* trailing run starts.
C3_OpenRunExcluded ==
    (Detected /\ lastCall.scanned # <<>>
              /\ Flag(lastCall.scanned, Len(lastCall.scanned))) =>
        LET ms == lastCall.scanned
            first == ms[OpenRunStart(ms)].timestamp
        IN  /\ \A k \in DOMAIN lastCall.calls :
                  lastCall.calls[k].event.end_time < first
            /\ \A k \in DOMAIN lastCall.result :
                  lastCall.result[k].end_time < first

\* Reached: a scan that ended on an open run of at least 3 samples after
\* committing an earlier closed run.
C3_Witness ==
    /\ Detected /\ lastCall.scanned # <<>>
    /\ Flag(lastCall.scanned, Len(lastCall.scanned))
    /\ Len(lastCall.scanned) - OpenRunStart(lastCall.scanned) + 1 >= 3
    /\ lastCall.result # <<>>

\* C4: resume correctness.  Every episode a step adds to the store ends
\* after every episode of the same location that was stored before the step.
C4_ResumeCorrect ==
    [][\A k \in DOMAIN events' :
          k > Len(events) =>
              \A j \in DOMAIN events :
                  events[j].location = events'[k].location =>
                      events'[k].end_time > events[j].end_time]_vars

\* Reached: an invocation that committed an episode for a location that
\* already had one.
C4_Witness ==
    /\ Detected /\ lastCall.result # <<>>
    /\ Len(events) > Len(lastCall.result)
    /\ events[1].location = lastCall.location

\* The closed runs of at least 3 samples.
QualifyingRuns(ms) == {r \in ClosedRuns(ms) : RunLength(r) >= 3}

\* C5: multi-run series.  When every commit is accepted there is exactly
\* one add_calima_event call per closed run of at least 3 samples, the
\* returned list is the list of submitted episodes, and consecutive returned
\* episodes are in ascending start order with each end before the next
\* start.
C5_MultiRun ==
    (Detected /\ AllAccepted(lastCall)) =>
        LET ms == lastCall.scanned
        IN  /\ Len(lastCall.calls) = Cardinality(QualifyingRuns(ms))
            /\ \A r \in QualifyingRuns(ms) : Cardinality(CallsFor(ms, r)) = 1
            /\ lastCall.result =
                  [k \in DOMAIN lastCall.calls |-> lastCall.calls[k].event]
            /\ \A k \in 1 .. Len(lastCall.result) - 1 :
                  /\ lastCall.result[k].start_time < lastCall.result[k + 1].start_time
                  /\ lastCall.result[k].end_time < lastCall.result[k + 1].start_time

\* Reached: one scan that returned two episodes.
C5_Witness ==
    /\ Detected /\ AllAccepted(lastCall)
    /\ Len(lastCall.result) = 2

\* An absent value counted as 0.
AbsentAsZero(v) == IF v = None THEN 0 ELSE v

SetMax(S) == CHOOSE x \in S : \A y \in S : y <= x

\* The samples of ms from start to end.
SamplesOf(ms, event) ==
    {ms[i] : i \in {j \in DOMAIN ms : /\ event.start_time <= ms[j].timestamp
                                      /\ ms[j].timestamp <= event.end_time}}

\* C6: peak aggregation.  Each peak of each submitted episode is the
\* maximum over the samples of the episode's own run of the sample's value,
\* an absent value counted as 0.
C6_Peaks ==
    Detected =>
        \A k \in DOMAIN lastCall.calls :
            LET event == lastCall.calls[k].event
                own == SamplesOf(lastCall.scanned, event)
            IN  /\ event.peak_pm10 = SetMax({AbsentAsZero(m.pm10) : m \in own})
                /\ event.peak_dust = SetMax({AbsentAsZero(m.dust) : m \in own})
                /\ event.peak_aod = SetMax({AbsentAsZero(m.aod) : m \in own})

\* Reached: an episode none of whose samples has pm10 or aod (both peaks 0),
\* submitted after an earlier run, too short to commit, that had both.
C6_Witness ==
    /\ Detected
    /\ \E k \in DOMAIN lastCall.calls :
          LET event == lastCall.calls[k].event
          IN  /\ event.peak_pm10 = 0 /\ event.peak_aod = 0 /\ event.peak_dust > 0
              /\ \A m \in SamplesOf(lastCall.scanned, event) : m.pm10 = None
              /\ \E i \in DOMAIN lastCall.scanned :
                    /\ lastCall.scanned[i].timestamp < event.start_time
                    /\ Flag(lastCall.scanned, i)
                    /\ lastCall.scanned[i].pm10 > 0

Classified == verdict # "none"

\* C7: the classifier rule.  The verdict is true exactly when dust > 150,
\* or pm10 > 50 and aod > 0.5 (5 tenths), or pm25 > 35 and pm10 > 60, an
\* absent value satisfying no comparison.
C7_ClassifierRule ==
    Classified =>
        LET pm10 == point[1]
            pm25 == point[2]
            dust == point[3]
            aod == point[4]
        IN  (verdict = "True") <=>
                \/ (dust # None /\ dust > 150)
                \/ (pm10 # None /\ aod # None /\ pm10 > 50 /\ aod > 5)
                \/ (pm25 # None /\ pm10 # None /\ pm25 > 35 /\ pm10 > 60)

\* Reached: every value at its threshold (pm10 at the higher one) is
\* classified false.
C7_Witness ==
    /\ Classified
    /\ point = <<60, 35, 150, 5>>
    /\ verdict = "False"

\* The tuples obtained from p by replacing some present values by absent ones.
Weakened(p) ==
    {q \in {None, p[1]} \X {None, p[2]} \X {None, p[3]} \X {None, p[4]} : q # p}

\* C8: absent values never help.  If the verdict is false, every tuple
\* obtained by replacing present values by absent ones is classified false,
\* and the all-absent tuple is classified false.
C8_AbsentNeverHelps ==
    Classified =>
        /\ \A q \in Weakened(point) :
              is_calima_from_values(q[1], q[2], q[3], q[4]) => verdict = "True"
        /\ point = <<None, None, None, None>> => verdict = "False"

\* Reached: a tuple of four present values classified false.
C8_Witness ==
    /\ Classified
    /\ \A i \in 1 .. 4 : point[i] # None
    /\ verdict = "False"

IsOk(call) == call.ok

\* C9: write failure is tolerated.  The call does not raise, the returned
\* list is the list of the accepted episodes in call order, and after a
\* rejected call every later closed run of at least 3 samples is still
\* submitted.
C9_WriteFailureTolerated ==
    Detected =>
        /\ ~lastCall.raised
        /\ LET accepted == SelectSeq(lastCall.calls, IsOk)
           IN  lastCall.result = [k \in DOMAIN accepted |-> accepted[k].event]
        /\ \A k \in DOMAIN lastCall.calls :
              ~lastCall.calls[k].ok =>
                  /\ lastCall.calls[k].event \notin Range(lastCall.result)
                  /\ \A r \in QualifyingRuns(lastCall.scanned) :
                        lastCall.scanned[r[1]].timestamp
                                > lastCall.calls[k].event.end_time =>
                            \E j \in CallsFor(lastCall.scanned, r) :
                                /\ j > k
                                /\ lastCall.calls[j].ok =>
                                      lastCall.calls[j].event
                                          \in Range(lastCall.result)

\* Reached: the first commit of a scan was rejected, the second accepted
\* and returned.
C9_Witness ==
    /\ Detected
    /\ Len(lastCall.calls) = 2
    /\ ~lastCall.calls[1].ok /\ lastCall.calls[2].ok
    /\ lastCall.result = <<lastCall.calls[2].event>>

\* C10: empty input.  detect_events for an unknown location, or with no
\* reading in the fetched range, returns the empty list, makes no
\* add_calima_event call and does not raise.
C10_EmptyInput ==
    (Detected /\ (lastCall.location \notin locations \/ lastCall.scanned = <<>>)) =>
        /\ lastCall.result = <<>>
        /\ lastCall.calls = <<>>
        /\ ~lastCall.raised

\* Reached: detect_events for a location name the store does not know.
C10_Witness ==
    /\ Detected
    /\ lastCall.location \notin locations
    /\ lastCall.result = <<>>

\* C11: episode invariant.  Every episode the latest detect_events stored
\* has start_time <= end_time and covers at least 3 samples of the scanned
\* series; every stored episode ends at least 2 hours after it starts.
C11_EpisodeInvariant ==
    /\ Detected =>
          \A k \in DOMAIN lastCall.result :
              /\ lastCall.result[k].start_time <= lastCall.result[k].end_time
              /\ Cardinality(SamplesOf(lastCall.scanned, lastCall.result[k])) >= 3
    /\ \A k \in DOMAIN events :
          /\ events[k].start_time <= events[k].end_time
          /\ events[k].end_time - events[k].start_time >= 2

\* Reached: a stored episode of exactly 3 samples that are not consecutive
\* hours.
C11_Witness ==
    /\ Detected
    /\ \E k \in DOMAIN lastCall.result :
          /\ Cardinality(SamplesOf(lastCall.scanned, lastCall.result[k])) = 3
          /\ lastCall.result[k].end_time - lastCall.result[k].start_time > 2

\* C12: append-only under detection.  A detect_events step leaves the
\* locations and the readings as they are, keeps every stored episode in
\* place and unchanged, and adds exactly the episodes it returns.
C12_AppendOnly ==
    [][lastCall'.op = "detect_events" =>
          /\ locations' = locations
          /\ measurements' = measurements
          /\ Len(events') >= Len(events)
          /\ \A k \in DOMAIN events : events'[k] = events[k]
          /\ events' = events \o lastCall'.result]_vars

\* Reached: detect_events added an episode to a store that already held one.
C12_Witness ==
    /\ Detected
    /\ lastCall.result # <<>>
    /\ Len(events) >= Len(lastCall.result) + 1

\* The readings of a location from hour `from` on.
ReadingsFrom(location, from) ==
    {m \in measurements : m.location = location /\ m.timestamp >= from}

IsAscending(ms) ==
    \A i \in 1 .. Len(ms) - 1 : ms[i].timestamp < ms[i + 1].timestamp

\* The stored episodes of a location before the step's additions.
OwnEvents(evs, location) == {e \in Range(evs) : e.location = location}

C13_UnknownLocation ==
    [][(lastCall'.location \notin locations /\ lastCall'.op # "add_location") =>
          LET op == lastCall'.op
          IN  /\ ~lastCall'.raised
              /\ <<locations, measurements, events>>' = <<locations, measurements, events>>
              /\ op \in {"add_measurement", "add_calima_event", "get_latest"} =>
                    lastCall'.returned = "None"
              /\ op \in {"bulk_add_measurements", "delete_measurements_for_location"} =>
                    lastCall'.returned = 0
              /\ op \in {"get_measurements", "get_range", "find_calima_hours",
                         "get_calima_events", "get_events_over_threshold",
                         "get_latest"} =>
                    lastCall'.result = <<>>]_vars

\* Reached: add_calima_event returned None for an unknown location while
\* the store holds readings and an event of another location.
C13_Witness ==
    /\ lastCall.op = "add_calima_event"
    /\ lastCall.location \notin locations
    /\ lastCall.returned = "None"
    /\ measurements # {}
    /\ events # <<>>

\* C18: ownership by location.  Every stored reading and every stored
\* episode references a location of the store; hence none was created for an
\* unknown location and none survives the removal of its location.
C18_Ownership ==
    /\ \A m \in measurements : m.location \in locations
    /\ \A k \in DOMAIN events : events[k].location \in locations

\* Reached: a location was removed together with readings and events of its
\* own, while another location keeps its readings.
C18_Witness ==
    /\ lastCall.op = "delete_location"
    /\ lastCall.args[1] > 0 /\ lastCall.args[2] > 0
    /\ lastCall.location \notin locations
    /\ measurements # {}

\* The value a field of `after` must have when `kwargs` was applied to
\* `before`: the value passed when the field is one of the five and was
\* passed with a value other than None, the old value otherwise.
Passed(kwargs, field) ==
    /\ field \in {"pm10", "pm25", "dust", "aod", "is_calima"}
    /\ kwargs[field] # Missing
    /\ kwargs[field] # None

FieldUpdated(before, after, kwargs, field) ==
    IF Passed(kwargs, field)
    THEN IF field = "is_calima" THEN after[field] = (kwargs[field] = 1)
                                ELSE after[field] = kwargs[field]
    ELSE after[field] = before[field]

\* C15: update_measurement.  When the id matches a reading and some field
\* among pm10, pm25, dust, aod, is_calima is passed with a non-None value the
\* call returns, the reading takes the passed non-None values in exactly
\* those fields, keeps every other field (timestamp and location included)
\* and every other reading is unchanged; otherwise it raises ValueError and
\* the store is unchanged.
C15_Update ==
    [][lastCall'.op = "update_measurement" =>
          LET l == lastCall'.location
              t == lastCall'.args[1]
              kwargs == lastCall'.args[2]
              target == {m \in measurements : m.location = l /\ m.timestamp = t}
              some == \E field \in DOMAIN kwargs : Passed(kwargs, field)
          IN  /\ <<locations, events>>' = <<locations, events>>
              /\ IF target # {} /\ some
                 THEN /\ ~lastCall'.raised
                      /\ measurements \ target \subseteq measurements'
                      /\ Cardinality(measurements') = Cardinality(measurements)
                      /\ \A before \in target :
                            \E after \in measurements' \ (measurements \ target) :
                                \A field \in DOMAIN before :
                                    FieldUpdated(before, after, kwargs, field)
                 ELSE /\ lastCall'.raised
                      /\ lastCall'.returned = "ValueError"
                      /\ measurements' = measurements]_vars

\* Reached: an update that was passed pm10=70, dust=None, is_calima=True and
\* timestamp=2 returned for the reading of hour 0, which now has pm10 70 and
\* its old dust, while an untouched reading of another hour is stored.
C15_Witness ==
    /\ lastCall.op = "update_measurement"
    /\ ~lastCall.raised
    /\ lastCall.args = <<0, Kwargs(70, Missing, None, Missing, 1, 2)>>
    /\ \E m \in measurements :
          m.timestamp = 0 /\ m.pm10 = 70 /\ m.dust = 200 /\ m.is_calima
    /\ \E m \in measurements : m.timestamp = 1 /\ m.pm10 = 10

\* C17: reading uniqueness.  No two stored readings have the same location
\* and timestamp, and an add_measurement that was rejected as a duplicate
\* left a single reading for that pair.
C17_Unique ==
    \A m1 \in measurements : \A m2 \in measurements :
        (m1.location = m2.location /\ m1.timestamp = m2.timestamp) => m1 = m2

\* Reached: add_measurement raised on a duplicate while readings are stored.
C17_Witness ==
    /\ lastCall.op = "add_measurement"
    /\ lastCall.raised
    /\ Cardinality(measurements) >= 2

\* C14: range query.  get_range(location, start, end) returned exactly the
\* location's readings with start <= timestamp <= end, each once, in
\* ascending timestamp order; get_measurements(location) returned all of the
\* location's readings in ascending timestamp order.
C14_RangeQuery ==
    LET l == lastCall.location
        own == {m \in measurements : m.location = l}
        within == {m \in own : /\ lastCall.args[1] <= m.timestamp
                               /\ m.timestamp <= lastCall.args[2]}
    IN  /\ (lastCall.op = "get_range" /\ l \in locations) =>
              /\ Range(lastCall.result) = within
              /\ Len(lastCall.result) = Cardinality(within)
              /\ IsAscending(lastCall.result)
        /\ (lastCall.op = "get_measurements" /\ l \in locations) =>
              /\ Range(lastCall.result) = own
              /\ Len(lastCall.result) = Cardinality(own)
              /\ IsAscending(lastCall.result)

\* Reached: get_range(1, 2) over readings at hours 0..3 returned the readings
\* of hours 1 and 2, those on both bounds, and not those of hours 0 and 3.
C14_Witness ==
    /\ lastCall.op = "get_range"
    /\ lastCall.args = <<1, 2>>
    /\ Len(lastCall.result) = 2
    /\ lastCall.result[1].timestamp = 1
    /\ lastCall.result[2].timestamp = 2
    /\ \A t \in {0, 3} : \E m \in measurements : m.timestamp = t

\* C16: get_events_over_threshold(location, pm10_min) returned exactly the
\* location's episodes whose peak_pm10 is greater than pm10_min (none whose
\* peak_pm10 equals pm10_min), newest start first.
C16_OverThreshold ==
    (lastCall.op = "get_events_over_threshold" /\ lastCall.location \in locations) =>
        LET over == {k \in DOMAIN events :
                        /\ events[k].location = lastCall.location
                        /\ events[k].peak_pm10 # None
                        /\ events[k].peak_pm10 > lastCall.args[1]}
        IN  /\ Len(lastCall.result) = Cardinality(over)
            /\ \A k \in over : events[k] \in Range(lastCall.result)
            /\ \A i \in DOMAIN lastCall.result :
                  /\ \E k \in over : events[k] = lastCall.result[i]
                  /\ lastCall.result[i].peak_pm10 # lastCall.args[1]
            /\ \A i \in 1 .. Len(lastCall.result) - 1 :
                  lastCall.result[i].start_time >= lastCall.result[i + 1].start_time

\* C19: fetch_history_days(location, days).  For a location that is not a
\* key of LOCATIONS it raised the unknown-location ValueError, also when
\* days > 90; for a known location and days > 90 it raised the days
\* ValueError; in both cases no HTTP request was issued.  For a known
\* location and days <= 90 exactly one request was issued.
C19_FetchHistoryDays ==
    lastCall.op = "fetch_history_days" =>
        LET known == lastCall.location \in {"santa_cruz", "puerto_de_la_cruz", "adeje"}
            days == lastCall.args[1]
        IN  /\ ~known =>
                  /\ lastCall.raised
                  /\ lastCall.returned = "ValueError: Unknown location"
                  /\ lastCall.calls = <<>>
            /\ (known /\ days > 90) =>
                  /\ lastCall.raised
                  /\ lastCall.returned = "ValueError: past_days"
                  /\ lastCall.calls = <<>>
            /\ (known /\ days <= 90) =>
                  /\ Len(lastCall.calls) = 1
                  /\ lastCall.returned \in {"AirQualityData", "HTTPError"}

\* Reached: an unknown location with days = 91 raised the unknown-location
\* error without a request.
C19_Witness ==
    /\ lastCall.op = "fetch_history_days"
    /\ lastCall.location = "la_laguna"
    /\ lastCall.args = <<91>>
    /\ lastCall.returned = "ValueError: Unknown location"
    /\ lastCall.calls = <<>>

\* C25: episode bounds.  For every episode submitted for commit there are
\* scanned samples a..b, all calima, with a the first scanned sample or
\* preceded by a non-calima sample, start the timestamp of a, end the
\* timestamp of b, sample b + 1 not calima, and the call made while sample
\* b + 1 is processed.
C25_EpisodeBounds ==
    Detected =>
        LET ms == lastCall.scanned
        IN  \A k \in DOMAIN lastCall.calls :
                LET call == lastCall.calls[k]
                IN  \E a \in DOMAIN ms : \E b \in DOMAIN ms :
                        /\ a <= b /\ b + 1 <= Len(ms)
                        /\ ms[a].timestamp = call.event.start_time
                        /\ ms[b].timestamp = call.event.end_time
                        /\ \A i \in a .. b : Flag(ms, i)
                        /\ (a = 1 \/ ~Flag(ms, a - 1))
                        /\ ~Flag(ms, b + 1)
                        /\ call.at = b + 1

\* Reached: an episode that starts after a non-calima sample and whose
\* closing sample comes more than an hour after its end.
C25_Witness ==
    /\ Detected
    /\ \E k \in DOMAIN lastCall.calls :
          LET call == lastCall.calls[k]
          IN  /\ lastCall.scanned[call.at].timestamp > call.event.end_time + 1
              /\ call.event.start_time > lastCall.scanned[1].timestamp

\* The series ms with its stored flags replaced: all set, all cleared, or
\* each inverted.
Reflagged(ms) ==
    {[i \in DOMAIN ms |-> [ms[i] EXCEPT !.is_calima = TRUE]],
     [i \in DOMAIN ms |-> [ms[i] EXCEPT !.is_calima = FALSE]],
     [i \in DOMAIN ms |-> [ms[i] EXCEPT !.is_calima = ~ms[i].is_calima]]}

\* What the calls and the returned list say of a series, the stored flags
\* left out.
Unflagged(st) ==
    [calls |-> st.calls, events |-> st.events]

\* C26: the stored flag is ignored.  The scan of the series with its stored
\* is_calima flags set, cleared or inverted, the same calls being rejected,
\* makes the same add_calima_event calls and returns the same list as the
\* scan that was made.
C26_StoredFlagIgnored ==
    (Detected /\ lastCall.scanned # <<>>) =>
        LET rejected == {k \in DOMAIN lastCall.calls : ~lastCall.calls[k].ok}
        IN  \A other \in Reflagged(lastCall.scanned) :
                Unflagged(Scan(other, lastCall.location, rejected)) =
                    [calls |-> lastCall.calls, events |-> lastCall.result]

\* Reached: a committed episode that holds a sample stored with
\* is_calima = False, and a scanned non-calima sample.
C26_Witness ==
    /\ Detected
    /\ \E k \in DOMAIN lastCall.result :
          \E m \in SamplesOf(lastCall.scanned, lastCall.result[k]) : ~m.is_calima
    /\ \E i \in DOMAIN lastCall.scanned : ~Flag(lastCall.scanned, i)

\* C29: bulk_add_measurements returns the number of readings it added to
\* the store: the length of the list when the insert succeeds, 0 otherwise,
\* and when it returns 0 no reading has been added.
C29_BulkCount ==
    [][lastCall'.op = "bulk_add_measurements" =>
          /\ lastCall'.returned = Cardinality(measurements' \ measurements)
          /\ lastCall'.returned = 0 => measurements' = measurements]_vars

\* C30: the two hour classifiers agree.  The is_calima flag of the
\* datapoint get_current_point returned equals is_calima_from_values on the
\* datapoint's pm10, pm25, dust and aod.
C30_ClassifiersAgree ==
    (lastCall.op = "get_current_point" /\ ~lastCall.raised) =>
        LET p == lastCall.result[1]
        IN  p.is_calima = is_calima_from_values(p.pm10, p.pm25, p.dust, p.aod)

\* The greatest end_time among the episodes of a location in evs, None
\* when it has none.
LatestEnd(evs, location) ==
    IF OwnEvents(evs, location) = {} THEN None
    ELSE SetMax({e.end_time : e \in OwnEvents(evs, location)})

\* C24: the resume point is the latest committed end.  The resume point a
\* detect_events step computes from the episodes stored before it is the
\* greatest end_time among the location's stored episodes (none when it has
\* none), and the greatest stored end_time of a location never decreases in
\* any step, so the resume point of a later invocation is not below that of
\* an earlier one.
C24_ResumePoint ==
    [][/\ (lastCall'.op = "detect_events" /\ lastCall'.location \in locations) =>
              lastCall'.read.start = LatestEnd(events, lastCall'.location)
       /\ \A l \in locations :
              /\ l \in locations'
              /\ LatestEnd(events', l) >= LatestEnd(events, l)]_vars

\* Reached: an invocation that found two stored episodes and resumed at the
\* end of the later one.
C24_Witness ==
    /\ Detected
    /\ Len(events) - Len(lastCall.result) >= 2
    /\ lastCall.read.method = "get_range"
    /\ \E i \in DOMAIN events : \E j \in DOMAIN events :
          /\ events[i].end_time < events[j].end_time
          /\ lastCall.read.start = events[j].end_time

\* C27: no duplicate or overlapping episodes under append-only growth.
\* Any two stored episodes of one location have disjoint [start, end]
\* intervals; in particular no two have the same start and end.
C27_Disjoint ==
    \A i \in DOMAIN events : \A j \in DOMAIN events :
        (i # j /\ events[i].location = events[j].location) =>
            \/ events[i].end_time < events[j].start_time
            \/ events[j].end_time < events[i].start_time

\* Reached: two stored episodes, the second committed by a later invocation
\* that re-examined the end hour of the first.
C27_Witness ==
    /\ Detected
    /\ Len(events) = 2 /\ Len(lastCall.result) = 1
    /\ lastCall.scanned[1].timestamp = events[1].end_time

\* Two stored episodes of one location have an hour in common.
ShareAnHour(e1, e2) ==
    /\ e1.location = e2.location
    /\ e1.start_time <= e2.end_time
    /\ e2.start_time <= e1.end_time

C28_RejectedResubmitted ==
    [][(/\ Detected
        /\ lastCall'.op = "detect_events"
        /\ lastCall'.location = lastCall.location) =>
          \A k \in DOMAIN lastCall.calls :
              ~lastCall.calls[k].ok =>
                  \E j \in DOMAIN lastCall'.calls :
                      lastCall'.calls[j].event = lastCall.calls[k].event]_vars

\* The stored readings of the location from hour a to hour b are a maximal
\* run of at least 3 calima samples that is followed by a non-calima sample.
ClosedInStore(location, a, b) ==
    LET own == {m \in measurements : m.location = location}
        before == {m \in own : m.timestamp < a}
        after == {m \in own : m.timestamp > b}
        run == {m \in own : a <= m.timestamp /\ m.timestamp <= b}
    IN  /\ Cardinality(run) >= 3
        /\ \A m \in run : is_hour_calima(m)
        /\ \E m \in run : m.timestamp = a
        /\ \E m \in run : m.timestamp = b
        /\ \A m \in before :
              (\A o \in before : o.timestamp <= m.timestamp) => ~is_hour_calima(m)
        /\ after # {}
        /\ \A m \in after :
              (\A o \in after : m.timestamp <= o.timestamp) => ~is_hour_calima(m)

\* The stored episodes of the location from hour a to hour b.
Committed(location, a, b) ==
    {k \in DOMAIN events : /\ events[k].location = location
                           /\ events[k].start_time = a
                           /\ events[k].end_time = b}

\* C21: a deferred open run is eventually committed exactly once.  Under
\* append-only growth, with every commit accepted and detect_events invoked
\* again and again, every closed run of at least 3 samples of the stored
\* series (a run has one end for its start) is eventually stored as exactly
\* one episode, and no two stored episodes ever have the same start and end.
C21_EventuallyCommittedOnce ==
    /\ \A l \in LocNames : \A a \in LiveHours :
          (\E b \in LiveHours : ClosedInStore(l, a, b))
              ~> (\E b \in LiveHours :
                     /\ ClosedInStore(l, a, b)
                     /\ Cardinality(Committed(l, a, b)) = 1)
    /\ [](\A i \in DOMAIN events : \A j \in DOMAIN events :
            (/\ i # j
             /\ events[i].location = events[j].location
             /\ events[i].start_time = events[j].start_time) =>
                events[i].end_time # events[j].end_time)

\* Reached: an invocation returned leaving an open run of at least 3
\* samples uncommitted, the closing sample was appended afterwards, and the
\* run is not stored yet.
C21_Witness ==
    LET r == running["first"]
    IN  /\ r.pc = "idle" /\ r.i = Len(r.ms) + 1
        /\ r.st.current_start # None
        /\ r.st.run_len >= MinRunLen
        /\ r.st.events = <<>>
        /\ \E b \in LiveHours : ClosedInStore(r.location, r.st.current_start, b)
        /\ events = <<>>

\* The same episode (location, start and end) is stored twice.
StoredTwice ==
    \E i \in DOMAIN events : \E j \in DOMAIN events :
        /\ i # j
        /\ events[i].location = events[j].location
        /\ events[i].start_time = events[j].start_time
        /\ events[i].end_time = events[j].end_time

\* C23: single writer per location.  When the invocations of detect_events
\* are serialized no episode is stored twice; that interleaved invocations do
\* store one twice is the reachable state C23_Witness.
C23_SingleWriter ==
    serialized => ~StoredTwice

\* Reached: two interleaved invocations for the same location stored the
\* same episode twice.
C23_Witness ==
    /\ ~serialized
    /\ StoredTwice
    /\ \A c \in Callers : running[c].location = "santa_cruz"

====
